---- MODULE Spec2Model ----
(***************************************************************************)
(* Model of arangod/IResearch/IResearchLink.cpp: the link between a        *)
(* collection and an iResearch view.  One link slot is modelled; make      *)
(* fills it, the member functions act on it.  Every action is one whole    *)
(* call; `last' records the call, what it returned and the calls it made   *)
(* on its collaborators (database, view, status queue).                    *)
(*                                                                         *)
(* Identifiers of the 'view' field are drawn from: absent, a non-number,   *)
(* and the non-negative integers 0..MaxViewId.  Negative and non-integral  *)
(* numbers are left out: what getInt()/getUInt() do on them is decided by  *)
(* the velocypack library, not by this file.                               *)
(***************************************************************************)
EXTENDS Integers, Sequences, FiniteSets, TLC

\* ---------------------------------------------------------------- bounds
MaxViewId == 2
MaxCid == 1
MaxRid == 2
MaxViewMemory == 1
MaxLinkCount == 1
MaxTasks == 2

\* ------------------------------------------------------------ error codes
TRI_ERROR_NO_ERROR == "NO_ERROR"
TRI_ERROR_INTERNAL == "INTERNAL"
TRI_ERROR_BAD_PARAMETER == "BAD_PARAMETER"
TRI_ERROR_ARANGO_COLLECTION_NOT_LOADED == "COLLECTION_NOT_LOADED"
TRI_ERROR_ARANGO_VIEW_NOT_FOUND == "VIEW_NOT_FOUND"

\* the value of `set' in a call record when the call never called TRI_set_errno
ERRNO_UNSET == "UNSET"

\* statuses a view may report from insert/remove/drop
ViewStatuses ==
  {TRI_ERROR_NO_ERROR, TRI_ERROR_INTERNAL, TRI_ERROR_BAD_PARAMETER}

LINK_TYPE == "iresearch"

\* --------------------------------------------------------------- documents
FieldNames == {"a", "b"}
Docs == {"d1", "d2"}
Rids == 1..MaxRid
ViewIds == 1..MaxViewId   \* ids of existing views; 0 is never a valid id
Cids == 1..MaxCid

\* the 'view' entry of a definition: absent, a non-number, or a number
NoViewField == [has |-> FALSE, number |-> FALSE, n |-> 0]
ViewFields ==
  {NoViewField, [has |-> TRUE, number |-> FALSE, n |-> 0]}
    \cup {[has |-> TRUE, number |-> TRUE, n |-> i] : i \in 0..MaxViewId}

\* the metadata entries of a definition: malformed, or a list of field names
FieldLists == {<<"a">>, <<"a", "b">>, <<"b", "a">>}
MetaDocs ==
  {[ok |-> FALSE, list |-> <<>>]} \cup {[ok |-> TRUE, list |-> s] : s \in FieldLists}

\* a definition as handed to make / matchesDefinition / EnhanceJsonIResearchLink
Definitions ==
  [skip : {"absent", "true", "false"}, view : ViewFields, fields : MetaDocs]

\* candidates of matchesDefinition never carry the (unpersisted) skip marker
Candidates == {d \in Definitions : d.skip = "absent"}

\* ----------------------------------------------------- velocypack accessors
SKIP_VIEW_REGISTRATION_FIELD == "skipViewRegistration"
VIEW_ID_FIELD == "view"

hasKey(slice, key) ==
  IF key = SKIP_VIEW_REGISTRATION_FIELD THEN slice.skip # "absent"
  ELSE IF key = VIEW_ID_FIELD THEN slice.view.has
  ELSE FALSE

isNumber(identifier) == identifier.number
getInt(identifier) == identifier.n
getUInt(identifier) == identifier.n
\* uint64_t(i): the identity on the non-negative integers of the model
ToUInt64(i) == i

\* ------------------------------------------------------ IResearchLinkMeta
\* init: parse the metadata of a definition; the meta is the set of fields
metaInit(slice) ==
  [ok |-> slice.fields.ok,
   meta |-> {slice.fields.list[i] : i \in 1..Len(slice.fields.list)}]

\* json: the canonical list of a field set
metaJson(meta) ==
  IF meta = {} THEN <<>>
  ELSE IF meta = {"a"} THEN <<"a">>
  ELSE IF meta = {"b"} THEN <<"b">>
  ELSE <<"a", "b">>

\* operator==: structural equality of two metas
metaEquals(m1, m2) == m1 = m2

\* ------------------------------------------------------------------- link
NoLink == [exists |-> FALSE, collection |-> 0, view |-> 0, defaultId |-> 0, meta |-> {}]

\* the constructor: no view, _defaultId(0)
IResearchLink(collection, meta) ==
  [exists |-> TRUE, collection |-> collection, view |-> 0, defaultId |-> 0, meta |-> meta]

\* IResearchView::linkRegister(link) on success sets the link's '_view'
linkRegister(l, v) == [l EXCEPT !.view = v]

\* tasks: the batchInsert calls that run as tasks of one LocalTaskQueue
VARIABLES link, errno, queue, last, tasks
vars == <<link, errno, queue, last, tasks>>

Tasks == 1..MaxTasks
IdleTask ==
  [pc |-> "idle", trx |-> 0, batch |-> <<>>, status |-> "none", writes |-> <<>>]

\* LocalTaskQueue::setStatus: the first error is not lost
setStatus(cur, status) == IF cur = TRI_ERROR_NO_ERROR THEN status ELSE cur

Init ==
  /\ link = NoLink
  /\ errno = TRI_ERROR_NO_ERROR
  /\ queue = TRI_ERROR_NO_ERROR
  /\ last = [op |-> "none"]
  /\ tasks = [t \in Tasks |-> IdleTask]

\* ------------------------------------------------------------------- make
\* collections handed to make: nullptr (cid 0), or one with/without a vocbase
Collections ==
  {[cid |-> 0, vocbase |-> FALSE]} \cup [cid : Cids, vocbase : BOOLEAN]

\* what vocbase->lookupView(id) does, and what getImplementation/linkRegister do
LookupOutcomes == {"null", "wrongType", "found", "throw"}
RegisterOutcomes == {"noImpl", "refused", "registered", "throw"}

Failed(code, calls) == [ptr |-> NoLink, set |-> code, calls |-> calls]
Made(ptr, calls) == [ptr |-> ptr, set |-> ERRNO_UNSET, calls |-> calls]

\* the non-deferred path that registers with whatever the lookup returned
makeBound_anyType(ptr, collection, definition, lookup, reg) ==
  LET viewId == getUInt(definition.view)
      lookupCall == <<[fn |-> "lookupView", id |-> viewId, outcome |-> lookup]>>
      registerCall == <<[fn |-> "linkRegister", id |-> viewId, outcome |-> "registered"]>>
  IN IF lookup \in {"throw", "null"} THEN Failed(ERRNO_UNSET, lookupCall)
     ELSE Made(linkRegister(ptr, viewId), lookupCall \o registerCall)

\* lines 230-260: the non-deferred path, lookup then registration
makeBound(ptr, collection, definition, lookup, reg) ==
  LET identifier == definition.view
      viewId == getUInt(identifier)
      lookupCall == <<[fn |-> "lookupView", id |-> viewId, outcome |-> lookup]>>
      registerCall == <<[fn |-> "linkRegister", id |-> viewId, outcome |-> reg]>>
  IN IF lookup = "throw" THEN Failed(ERRNO_UNSET, lookupCall)
     ELSE IF lookup # "found" THEN Failed(ERRNO_UNSET, lookupCall)
     ELSE IF reg = "noImpl" THEN Failed(ERRNO_UNSET, lookupCall)
     ELSE IF reg = "registered" THEN Made(linkRegister(ptr, viewId), lookupCall \o registerCall)
     ELSE Failed(ERRNO_UNSET, lookupCall \o registerCall)

\* the deferred path that stores the identifier without validating it
makeDeferred_unvalidated(ptr, definition) ==
  IF hasKey(definition, VIEW_ID_FIELD)
  THEN Made([ptr EXCEPT !.defaultId = getUInt(definition.view)], <<>>)
  ELSE Made(ptr, <<>>)

\* the deferred path that validates the identifier but does not remember it
makeDeferred_forgets(ptr, definition) ==
  IF hasKey(definition, VIEW_ID_FIELD)
  THEN LET identifier == definition.view
       IN IF ~isNumber(identifier) \/ ToUInt64(getInt(identifier)) # getUInt(identifier)
          THEN Failed(TRI_ERROR_BAD_PARAMETER, <<>>)
          ELSE Made(ptr, <<>>)
  ELSE Made(ptr, <<>>)

\* lines 212-228: the deferred path
makeDeferred(ptr, definition) ==
  IF hasKey(definition, VIEW_ID_FIELD)
  THEN LET identifier == definition.view
       IN IF ~isNumber(identifier) \/ ToUInt64(getInt(identifier)) # getUInt(identifier)
          THEN Failed(TRI_ERROR_BAD_PARAMETER, <<>>)
          ELSE Made([ptr EXCEPT !.defaultId = getUInt(identifier)], <<>>)
  ELSE Made(ptr, <<>>)

\* lines 230 and 234: the conditions under which make looks the view up
resolvesView(collection, definition) ==
  /\ collection.cid # 0
  /\ hasKey(definition, VIEW_ID_FIELD)
  /\ collection.vocbase
  /\ isNumber(definition.view)
  /\ ToUInt64(getInt(definition.view)) = getUInt(definition.view)

\* make that reports a missing view id as a parse error
make_badParameter(collection, definition, lookup, reg) ==
  LET m == metaInit(definition)
      ptr == IResearchLink(collection.cid, m.meta)
  IN IF ~m.ok THEN Failed(TRI_ERROR_BAD_PARAMETER, <<>>)
     ELSE IF hasKey(definition, SKIP_VIEW_REGISTRATION_FIELD)
     THEN makeDeferred(ptr, definition)
     ELSE IF resolvesView(collection, definition)
     THEN makeBound(ptr, collection, definition, lookup, reg)
     ELSE Failed(TRI_ERROR_BAD_PARAMETER, <<>>)

\* make that defers only when the marker is true
make_skipByValue(collection, definition, lookup, reg) ==
  LET m == metaInit(definition)
      ptr == IResearchLink(collection.cid, m.meta)
  IN IF ~m.ok THEN Failed(TRI_ERROR_BAD_PARAMETER, <<>>)
     ELSE IF definition.skip = "true"
     THEN makeDeferred(ptr, definition)
     ELSE IF resolvesView(collection, definition)
     THEN makeBound(ptr, collection, definition, lookup, reg)
     ELSE Failed(TRI_ERROR_ARANGO_VIEW_NOT_FOUND, <<>>)

make(collection, definition, lookup, reg) ==
  LET m == metaInit(definition)
      ptr == IResearchLink(collection.cid, m.meta)
  IN IF ~m.ok THEN Failed(TRI_ERROR_BAD_PARAMETER, <<>>)
     ELSE IF hasKey(definition, SKIP_VIEW_REGISTRATION_FIELD)
     THEN makeDeferred(ptr, definition)
     ELSE IF resolvesView(collection, definition)
     THEN makeBound(ptr, collection, definition, lookup, reg)
     ELSE Failed(TRI_ERROR_ARANGO_VIEW_NOT_FOUND, <<>>)

\* the outcomes the database can produce for lookupView(id): no view has id 0
LookupOutcomesOf(id) ==
  IF id \in ViewIds THEN LookupOutcomes ELSE {"null", "throw"}

\* a call of the factory while no link is held and no error code has been
\* reported; the model follows the link it returns.  The outcomes of the
\* collaborators are inputs.
Make ==
  /\ ~link.exists
  /\ errno = TRI_ERROR_NO_ERROR
  /\ \E collection \in Collections, definition \in Definitions :
      \E lookup \in LookupOutcomesOf(definition.view.n) :
      \E reg \in (IF lookup = "found" THEN RegisterOutcomes ELSE {"noImpl"}) :
        LET r == make(collection, definition, lookup, reg)
        IN /\ link' = r.ptr
           /\ errno' = IF r.set = ERRNO_UNSET THEN errno ELSE r.set
           /\ queue' = queue
           /\ last' = [op |-> "make", collection |-> collection,
                       definition |-> definition,
                       ret |-> r.ptr, set |-> r.set, calls |-> r.calls]

\* a later, separate registration of an unbound link by a view
ViewLinkRegister ==
  \E v \in ViewIds :
    /\ link.exists
    /\ link.view = 0
    /\ link' = linkRegister(link, v)
    /\ last' = [op |-> "linkRegister", id |-> v, calls |-> <<>>]
    /\ UNCHANGED <<errno, queue>>

\* ------------------------------------------------------ mutation forwarding
\* transaction handles: 0 is nullptr
Trxs == {0, 1}
Batches == {<<>>, <<[rid |-> 1, doc |-> "d1"]>>}

Returned(ret, calls) == [ret |-> ret, calls |-> calls]

\* does the call reach the view (both references present, trx given)
forwards(l, trx) == l.collection # 0 /\ l.view # 0 /\ trx # 0

\* insert without the check of line 175: an unbound link forwards
insert_unchecked(l, trx, rid, doc, viewStatus) ==
  IF trx = 0 THEN Returned(TRI_ERROR_BAD_PARAMETER, <<>>)
  ELSE Returned(viewStatus,
         <<[fn |-> "insert", view |-> l.view, cid |-> l.collection,
            rid |-> rid, doc |-> doc, meta |-> l.meta,
            status |-> viewStatus]>>)

\* insert that reports every failure of the view as an internal error
insert_flattened(l, trx, rid, doc, viewStatus) ==
  IF l.collection = 0 \/ l.view = 0
  THEN Returned(TRI_ERROR_ARANGO_COLLECTION_NOT_LOADED, <<>>)
  ELSE IF trx = 0 THEN Returned(TRI_ERROR_BAD_PARAMETER, <<>>)
  ELSE Returned(IF viewStatus = TRI_ERROR_NO_ERROR THEN viewStatus ELSE TRI_ERROR_INTERNAL,
         <<[fn |-> "insert", view |-> l.view, cid |-> l.collection,
            rid |-> rid, doc |-> doc, meta |-> l.meta,
            status |-> viewStatus]>>)

insert(l, trx, rid, doc, viewStatus) ==
  IF l.collection = 0 \/ l.view = 0
  THEN Returned(TRI_ERROR_ARANGO_COLLECTION_NOT_LOADED, <<>>)
  ELSE IF trx = 0 THEN Returned(TRI_ERROR_BAD_PARAMETER, <<>>)
  ELSE Returned(viewStatus,
         <<[fn |-> "insert", view |-> l.view, cid |-> l.collection,
            rid |-> rid, doc |-> doc, meta |-> l.meta,
            status |-> viewStatus]>>)

\* remove that tests the transaction before the binding
remove_trxFirst(l, trx, rid, doc, viewStatus) ==
  IF trx = 0 THEN Returned(TRI_ERROR_BAD_PARAMETER, <<>>)
  ELSE IF l.collection = 0 \/ l.view = 0
  THEN Returned(TRI_ERROR_ARANGO_COLLECTION_NOT_LOADED, <<>>)
  ELSE Returned(viewStatus,
         <<[fn |-> "remove", view |-> l.view, cid |-> l.collection, rid |-> rid,
            status |-> viewStatus]>>)

remove(l, trx, rid, doc, viewStatus) ==
  IF l.collection = 0 \/ l.view = 0
  THEN Returned(TRI_ERROR_ARANGO_COLLECTION_NOT_LOADED, <<>>)
  ELSE IF trx = 0 THEN Returned(TRI_ERROR_BAD_PARAMETER, <<>>)
  ELSE Returned(viewStatus,
         <<[fn |-> "remove", view |-> l.view, cid |-> l.collection, rid |-> rid,
            status |-> viewStatus]>>)

drop(l, viewStatus) ==
  IF l.collection = 0 \/ l.view = 0
  THEN Returned(TRI_ERROR_ARANGO_COLLECTION_NOT_LOADED, <<>>)
  ELSE Returned(viewStatus,
         <<[fn |-> "drop", view |-> l.view, cid |-> l.collection,
            status |-> viewStatus]>>)

\* batchInsert that returns quietly when it has no queue to report to
batchInsert_quiet(l, trx, batch, hasQueue, viewStatus) ==
  IF ~hasQueue \/ l.collection = 0 \/ l.view = 0 \/ trx = 0
  THEN [thrown |-> FALSE, writes |-> <<>>, calls |-> <<>>]
  ELSE [thrown |-> FALSE,
        writes |-> IF viewStatus # TRI_ERROR_NO_ERROR THEN <<viewStatus>> ELSE <<>>,
        calls |-> <<[fn |-> "insertBatch", view |-> l.view, cid |-> l.collection,
                     batch |-> batch, meta |-> l.meta,
                     status |-> viewStatus]>>]

\* batchInsert that tests the transaction before the binding
batchInsert_trxFirst(l, trx, batch, hasQueue, viewStatus) ==
  IF ~hasQueue THEN [thrown |-> TRUE, writes |-> <<>>, calls |-> <<>>]
  ELSE IF trx = 0
  THEN [thrown |-> FALSE, writes |-> <<TRI_ERROR_BAD_PARAMETER>>, calls |-> <<>>]
  ELSE IF l.collection = 0 \/ l.view = 0
  THEN [thrown |-> FALSE, writes |-> <<TRI_ERROR_ARANGO_COLLECTION_NOT_LOADED>>,
        calls |-> <<>>]
  ELSE [thrown |-> FALSE,
        writes |-> IF viewStatus # TRI_ERROR_NO_ERROR THEN <<viewStatus>> ELSE <<>>,
        calls |-> <<[fn |-> "insertBatch", view |-> l.view, cid |-> l.collection,
                     batch |-> batch, meta |-> l.meta,
                     status |-> viewStatus]>>]

\* batchInsert that reports the status of the view whatever it is
batchInsert_alwaysReports(l, trx, batch, hasQueue, viewStatus) ==
  IF ~hasQueue THEN [thrown |-> TRUE, writes |-> <<>>, calls |-> <<>>]
  ELSE IF l.collection = 0 \/ l.view = 0
  THEN [thrown |-> FALSE, writes |-> <<TRI_ERROR_ARANGO_COLLECTION_NOT_LOADED>>,
        calls |-> <<>>]
  ELSE IF trx = 0
  THEN [thrown |-> FALSE, writes |-> <<TRI_ERROR_BAD_PARAMETER>>, calls |-> <<>>]
  ELSE [thrown |-> FALSE,
        writes |-> <<viewStatus>>,
        calls |-> <<[fn |-> "insertBatch", view |-> l.view, cid |-> l.collection,
                     batch |-> batch, meta |-> l.meta,
                     status |-> viewStatus]>>]

\* thrown: the std::runtime_error of line 127; writes: the setStatus calls
batchInsert(l, trx, batch, hasQueue, viewStatus) ==
  IF ~hasQueue THEN [thrown |-> TRUE, writes |-> <<>>, calls |-> <<>>]
  ELSE IF l.collection = 0 \/ l.view = 0
  THEN [thrown |-> FALSE, writes |-> <<TRI_ERROR_ARANGO_COLLECTION_NOT_LOADED>>,
        calls |-> <<>>]
  ELSE IF trx = 0
  THEN [thrown |-> FALSE, writes |-> <<TRI_ERROR_BAD_PARAMETER>>, calls |-> <<>>]
  ELSE [thrown |-> FALSE,
        writes |-> IF viewStatus # TRI_ERROR_NO_ERROR THEN <<viewStatus>> ELSE <<>>,
        calls |-> <<[fn |-> "insertBatch", view |-> l.view, cid |-> l.collection,
                     batch |-> batch, meta |-> l.meta,
                     status |-> viewStatus]>>]

Insert ==
  /\ link.exists
  /\ \E trx \in Trxs, rid \in Rids, doc \in Docs :
      \E viewStatus \in (IF forwards(link, trx) THEN ViewStatuses ELSE {TRI_ERROR_NO_ERROR}) :
        LET r == insert(link, trx, rid, doc, viewStatus)
        IN last' = [op |-> "insert", trx |-> trx, rid |-> rid, doc |-> doc,
                    ret |-> r.ret, calls |-> r.calls]
  /\ UNCHANGED <<link, errno, queue>>

Remove ==
  /\ link.exists
  /\ \E trx \in Trxs, rid \in Rids, doc \in Docs :
      \E viewStatus \in (IF forwards(link, trx) THEN ViewStatuses ELSE {TRI_ERROR_NO_ERROR}) :
        LET r == remove(link, trx, rid, doc, viewStatus)
        IN last' = [op |-> "remove", trx |-> trx, rid |-> rid, doc |-> doc,
                    ret |-> r.ret, calls |-> r.calls]
  /\ UNCHANGED <<link, errno, queue>>

Drop ==
  /\ link.exists
  /\ \E viewStatus \in (IF forwards(link, 1) THEN ViewStatuses ELSE {TRI_ERROR_NO_ERROR}) :
        LET r == drop(link, viewStatus)
        IN last' = [op |-> "drop", ret |-> r.ret, calls |-> r.calls]
  /\ UNCHANGED <<link, errno, queue>>

BatchInsert ==
  /\ link.exists
  /\ \E trx \in Trxs, batch \in Batches, hasQueue \in BOOLEAN :
      \E viewStatus \in (IF hasQueue /\ forwards(link, trx) THEN ViewStatuses
                          ELSE {TRI_ERROR_NO_ERROR}) :
        LET r == batchInsert(link, trx, batch, hasQueue, viewStatus)
        IN /\ queue' = IF r.writes = <<>> THEN queue ELSE setStatus(queue, r.writes[1])
           /\ last' = [op |-> "batchInsert", trx |-> trx, batch |-> batch,
                       hasQueue |-> hasQueue, thrown |-> r.thrown,
                       writes |-> r.writes, calls |-> r.calls]
  /\ UNCHANGED <<link, errno>>

\* ------------------------------------------------------------ load / unload
\* load that binds the link to the view it remembers
load_rebinds(l) ==
  [ret |-> TRI_ERROR_NO_ERROR,
   link |-> IF l.view = 0 /\ l.defaultId # 0 THEN [l EXCEPT !.view = l.defaultId] ELSE l]

\* load that starts from a clean _defaultId
load_forgets(l) ==
  [ret |-> TRI_ERROR_NO_ERROR, link |-> [l EXCEPT !.defaultId = 0]]

load(l) == [ret |-> TRI_ERROR_NO_ERROR, link |-> l]

\* unload that keeps an id it already remembers
unload_keepsRemembered(l) ==
  [ret |-> TRI_ERROR_NO_ERROR,
   link |-> [l EXCEPT !.defaultId = IF l.defaultId = 0 THEN l.view ELSE l.defaultId,
                      !.view = 0]]

\* unload that assigns _defaultId unconditionally
unload_unconditional(l) ==
  [ret |-> TRI_ERROR_NO_ERROR,
   link |-> [l EXCEPT !.defaultId = l.view, !.view = 0]]

unload(l) ==
  [ret |-> TRI_ERROR_NO_ERROR,
   link |-> [l EXCEPT !.defaultId = IF l.view # 0 THEN l.view ELSE l.defaultId,
                      !.view = 0]]

Load ==
  /\ link.exists
  /\ link' = load(link).link
  /\ last' = [op |-> "load", ret |-> load(link).ret, calls |-> <<>>]
  /\ UNCHANGED <<errno, queue>>

Unload ==
  /\ link.exists
  /\ link' = unload(link).link
  /\ last' = [op |-> "unload", before |-> link, ret |-> unload(link).ret, calls |-> <<>>]
  /\ UNCHANGED <<errno, queue>>

\* ------------------------------------------- matchesDefinition / toVelocyPack
\* matchesDefinition that falls back to the remembered id of an unbound link
matchesDefinition_remembered(l, slice) ==
  LET identifier == slice.view
      other == metaInit(slice)
      id == IF l.view # 0 THEN l.view ELSE l.defaultId
      viewAgrees ==
        IF hasKey(slice, VIEW_ID_FIELD)
        THEN id # 0 /\ isNumber(identifier) /\ getUInt(identifier) = id
        ELSE id = 0
  IN viewAgrees /\ other.ok /\ metaEquals(l.meta, other.meta)

\* matchesDefinition without the 'else if (_view)' branch of line 284
matchesDefinition_noElse(l, slice) ==
  LET identifier == slice.view
      other == metaInit(slice)
      viewAgrees ==
        hasKey(slice, VIEW_ID_FIELD) =>
          /\ l.view # 0
          /\ isNumber(identifier)
          /\ getUInt(identifier) = l.view
  IN viewAgrees /\ other.ok /\ metaEquals(l.meta, other.meta)

matchesDefinition(l, slice) ==
  LET identifier == slice.view
      other == metaInit(slice)
      viewAgrees ==
        IF hasKey(slice, VIEW_ID_FIELD)
        THEN /\ l.view # 0
             /\ ~(\/ ~isNumber(identifier)
                   \/ ToUInt64(getInt(identifier)) # getUInt(identifier)
                   \/ getUInt(identifier) # l.view)
        ELSE l.view = 0
  IN viewAgrees /\ other.ok /\ metaEquals(l.meta, other.meta)

\* toVelocyPack with the condition of line 375: the remembered id is written
\* only for persistence
toVelocyPack_forPersistence(l, withFigures, forPersistence) ==
  [fields |-> metaJson(l.meta),
   type |-> LINK_TYPE,
   view |-> IF l.view # 0 THEN [has |-> TRUE, number |-> TRUE, n |-> l.view]
            ELSE IF l.defaultId # 0 /\ forPersistence
            THEN [has |-> TRUE, number |-> TRUE, n |-> l.defaultId]
            ELSE NoViewField,
   figures |-> withFigures]

\* the object written to the builder
toVelocyPack(l, withFigures, forPersistence) ==
  [fields |-> metaJson(l.meta),
   type |-> LINK_TYPE,
   view |-> IF l.view # 0 THEN [has |-> TRUE, number |-> TRUE, n |-> l.view]
            ELSE IF l.defaultId # 0
            THEN [has |-> TRUE, number |-> TRUE, n |-> l.defaultId]
            ELSE NoViewField,
   figures |-> withFigures]

\* the written object read back as a definition
AsDefinition(object) ==
  [skip |-> "absent", view |-> object.view,
   fields |-> [ok |-> TRUE, list |-> object.fields]]

MatchesDefinition ==
  /\ link.exists
  /\ \E slice \in Candidates :
       last' = [op |-> "matchesDefinition", slice |-> slice,
                ret |-> matchesDefinition(link, slice), calls |-> <<>>]
  /\ UNCHANGED <<link, errno, queue>>

ToVelocyPack ==
  /\ link.exists
  /\ \E withFigures \in BOOLEAN, forPersistence \in BOOLEAN :
       last' = [op |-> "toVelocyPack", withFigures |-> withFigures,
                forPersistence |-> forPersistence,
                ret |-> toVelocyPack(link, withFigures, forPersistence),
                calls |-> <<>>]
  /\ UNCHANGED <<link, errno, queue>>

\* ------------------------------------------------------------------ memory
\* the summands of the size: sizeof(IResearchLink), _meta.memory() and the
\* share of the view's memory; calls: what is asked of the view
memory(l, viewMemory, linkCount) ==
  [own |-> "sizeof(IResearchLink)",
   meta |-> Cardinality(l.meta),
   view |-> IF l.view # 0
            THEN viewMemory \div (IF linkCount > 1 THEN linkCount ELSE 1)
            ELSE 0,
   calls |-> IF l.view # 0
             THEN <<[fn |-> "memory", view |-> l.view],
                    [fn |-> "linkCount", view |-> l.view]>>
             ELSE <<>>]

Memory ==
  /\ link.exists
  /\ \E viewMemory \in (IF link.view # 0 THEN 0..MaxViewMemory ELSE {0}),
        linkCount \in (IF link.view # 0 THEN 0..MaxLinkCount ELSE {0}) :
       LET r == memory(link, viewMemory, linkCount)
       IN last' = [op |-> "memory", viewMemory |-> viewMemory, linkCount |-> linkCount,
                   ret |-> [own |-> r.own, meta |-> r.meta, view |-> r.view],
                   calls |-> r.calls]
  /\ UNCHANGED <<link, errno, queue>>

\* ------------------------------------------------ EnhanceJsonIResearchLink
\* what has been added to the builder: the view entry and the metadata lists
EmptyBuilder == [view |-> NoViewField, meta |-> <<>>]

\* EnhanceJsonIResearchLink that copies the view id before parsing the metadata
EnhanceJsonIResearchLink_viewFirst(definition, create) ==
  LET m == metaInit(definition)
      copied == IF hasKey(definition, VIEW_ID_FIELD) THEN definition.view ELSE NoViewField
  IN IF ~m.ok
     THEN [ret |-> TRI_ERROR_BAD_PARAMETER, builder |-> [view |-> copied, meta |-> <<>>]]
     ELSE [ret |-> TRI_ERROR_NO_ERROR,
           builder |-> [view |-> copied, meta |-> <<metaJson(m.meta)>>]]

EnhanceJsonIResearchLink(definition, create) ==
  LET m == metaInit(definition)
  IN IF ~m.ok
     THEN [ret |-> TRI_ERROR_BAD_PARAMETER, builder |-> EmptyBuilder]
     ELSE [ret |-> TRI_ERROR_NO_ERROR,
           builder |-> [view |-> IF hasKey(definition, VIEW_ID_FIELD)
                                 THEN definition.view ELSE NoViewField,
                        meta |-> <<metaJson(m.meta)>>]]

\* a call of the helper on a proposed definition; it needs no link
Enhance ==
  /\ \E definition \in Candidates, create \in BOOLEAN :
       LET r == EnhanceJsonIResearchLink(definition, create)
       IN last' = [op |-> "enhance", definition |-> definition, create |-> create,
                   ret |-> r.ret, builder |-> r.builder, calls |-> <<>>]
  /\ UNCHANGED <<link, errno, queue>>

\* --------------------------------------- batchInsert as tasks of one queue
\* the links the tasks can work on: whatever make returns
BatchLinks ==
  {l \in {make(c, d, "found", "registered").ptr : c \in Collections, d \in Definitions} :
     l.exists}

\* the effect of the setStatus calls of one batchInsert on the queue
Report(cur, writes) == IF writes = <<>> THEN cur ELSE setStatus(cur, writes[1])

\* lines 126-142: a task enters batchInsert with the shared queue; it either
\* reports and returns, or is inside _view->insert
BatchCall(t) ==
  /\ tasks[t].pc = "idle"
  /\ \E trx \in Trxs, batch \in Batches :
       IF forwards(link, trx)
       THEN /\ tasks' = [tasks EXCEPT ![t] =
                           [IdleTask EXCEPT !.pc = "inView", !.trx = trx, !.batch = batch]]
            /\ queue' = queue
       ELSE LET r == batchInsert(link, trx, batch, TRUE, TRI_ERROR_NO_ERROR)
            IN /\ tasks' = [tasks EXCEPT ![t] =
                              [IdleTask EXCEPT !.pc = "done", !.trx = trx,
                                               !.batch = batch, !.writes = r.writes]]
               /\ queue' = Report(queue, r.writes)
  /\ UNCHANGED <<link, errno, last>>

\* lines 142-147: the view returns its status to the task
BatchReturn(t) ==
  /\ tasks[t].pc = "inView"
  /\ \E viewStatus \in ViewStatuses :
       LET r == batchInsert(link, tasks[t].trx, tasks[t].batch, TRUE, viewStatus)
       IN /\ tasks' = [tasks EXCEPT ![t] =
                         [@ EXCEPT !.pc = "done", !.status = viewStatus,
                                   !.writes = r.writes]]
          /\ queue' = Report(queue, r.writes)
  /\ UNCHANGED <<link, errno, last>>

InitBatch ==
  /\ link \in BatchLinks
  /\ errno = TRI_ERROR_NO_ERROR
  /\ queue = TRI_ERROR_NO_ERROR
  /\ last = [op |-> "none"]
  /\ tasks = [t \in Tasks |-> IdleTask]

NextBatch ==
  \/ \E t \in Tasks : BatchCall(t)
  \/ \E t \in Tasks : BatchReturn(t)

SpecBatch == InitBatch /\ [][NextBatch]_vars

Next ==
  \/ Make /\ UNCHANGED tasks
  \/ ViewLinkRegister /\ UNCHANGED tasks
  \/ Insert /\ UNCHANGED tasks
  \/ Remove /\ UNCHANGED tasks
  \/ BatchInsert /\ UNCHANGED tasks
  \/ Drop /\ UNCHANGED tasks
  \/ Load /\ UNCHANGED tasks
  \/ Unload /\ UNCHANGED tasks
  \/ MatchesDefinition /\ UNCHANGED tasks
  \/ ToVelocyPack /\ UNCHANGED tasks
  \/ Memory /\ UNCHANGED tasks
  \/ Enhance /\ UNCHANGED tasks

Spec == Init /\ [][Next]_vars

\* ================================================================ properties
AllFlags == BOOLEAN \X BOOLEAN

\* C1: on a link with no bound view and no remembered id, insert and remove
\* return CollectionNotLoaded and make no call to any view, whatever the
\* transaction, revision id and document are.
C1_UnboundInsertRemove ==
  (last.op \in {"insert", "remove"} /\ link.view = 0 /\ link.defaultId = 0)
    => /\ last.ret = TRI_ERROR_ARANGO_COLLECTION_NOT_LOADED
       /\ last.calls = <<>>

C1_Witness ==
  /\ last.op = "insert"
  /\ link.view = 0 /\ link.defaultId = 0 /\ link.collection # 0
  /\ last.trx # 0
  /\ last.ret = TRI_ERROR_ARANGO_COLLECTION_NOT_LOADED

\* C2: after unload() of a link bound to view v the link is unbound, its
\* remembered id is v and toVelocyPack writes view = v, whatever the
\* remembered id was before.
C2_UnloadRemembersView ==
  (last.op = "unload" /\ last.before.view # 0)
    => /\ link.view = 0
       /\ link.defaultId = last.before.view
       /\ \A f \in AllFlags :
            toVelocyPack(link, f[1], f[2]).view
              = [has |-> TRUE, number |-> TRUE, n |-> last.before.view]

C2_Witness ==
  /\ last.op = "unload"
  /\ last.before.view # 0
  /\ last.before.defaultId # 0
  /\ last.before.defaultId # last.before.view
  /\ link.defaultId = last.before.view

\* the link's own definition, read back
OwnDefinitions(l) == {AsDefinition(toVelocyPack(l, f[1], f[2])) : f \in AllFlags}

\* C3 (as stated): matchesDefinition applied to the link's own definition
\* yields true in every state of the link.
C3_ReflexiveEverywhere ==
  (last.op = "matchesDefinition" /\ last.slice \in OwnDefinitions(link))
    => last.ret = TRUE

\* C3 (amended): matchesDefinition applied to the link's own definition yields
\* true exactly when the link is bound or remembers no id; for an unbound link
\* with a remembered id it yields false.
C3_ReflexiveUnlessRemembered ==
  (last.op = "matchesDefinition" /\ last.slice \in OwnDefinitions(link))
    => (last.ret = TRUE <=> (link.view # 0 \/ link.defaultId = 0))

C3_Witness ==
  /\ last.op = "matchesDefinition"
  /\ last.slice \in OwnDefinitions(link)
  /\ link.view = 0 /\ link.defaultId # 0
  /\ last.ret = FALSE

\* C4: matchesDefinition returns true iff (a) the candidate has no view field
\* and the link is unbound, or it has a non-negative integral view field equal
\* to the bound view's id, and (b) the candidate's metadata parses and equals
\* the link's metadata.
C4_MatchesIff ==
  last.op = "matchesDefinition"
    => LET c == last.slice
           viewOk == \/ (~c.view.has /\ link.view = 0)
                     \/ (c.view.has /\ c.view.number /\ link.view # 0
                           /\ c.view.n = link.view)
           metaOk == /\ c.fields.ok
                     /\ {c.fields.list[i] : i \in 1..Len(c.fields.list)} = link.meta
       IN last.ret = TRUE <=> (viewOk /\ metaOk)

C4_Witness ==
  /\ last.op = "matchesDefinition"
  /\ link.view # 0
  /\ ~last.slice.view.has
  /\ last.slice.fields.ok
  /\ {last.slice.fields.list[i] : i \in 1..Len(last.slice.fields.list)} = link.meta
  /\ last.ret = FALSE

\* C5: in non-deferred construction the lookup precedes the registration,
\* registration is attempted only after the lookup returned a view of the
\* expected type, the returned link is bound to the view iff the registration
\* succeeded, and a failed lookup or registration yields null and no bound link.
C5_RegistrationHandshake ==
  (last.op = "make" /\ last.definition.skip = "absent")
    => LET calls == last.calls
           registered == \E i \in 1..Len(calls) :
                           calls[i].fn = "linkRegister" /\ calls[i].outcome = "registered"
       IN /\ \A i \in 1..Len(calls) :
               calls[i].fn = "linkRegister"
                 => /\ i = 2
                    /\ calls[1].fn = "lookupView"
                    /\ calls[1].outcome = "found"
                    /\ calls[1].id = calls[i].id
          /\ (last.ret.exists /\ last.ret.view # 0) <=> registered
          /\ registered => last.ret.view = last.definition.view.n
          /\ ~registered => (~last.ret.exists /\ link.view = 0)
          /\ link = last.ret

C5_Witness ==
  /\ last.op = "make" /\ last.definition.skip = "absent"
  /\ Len(last.calls) = 2
  /\ last.calls[2].outcome = "refused"
  /\ ~link.exists

C7_NullQueueThrows ==
  (last.op = "batchInsert" /\ ~last.hasQueue)
    => (last.thrown /\ last.calls = <<>> /\ last.writes = <<>>)

C7_Witness ==
  /\ last.op = "batchInsert" /\ ~last.hasQueue
  /\ link.view # 0 /\ link.collection # 0 /\ last.trx # 0
  /\ last.thrown

\* C8 (as stated): every make that returns null has set an error code, and
\* for a lookup that returned nothing or a wrong-typed object that code is
\* ViewNotFound.
C8_FailureSetsErrno ==
  (last.op = "make" /\ ~last.ret.exists)
    => /\ last.set # ERRNO_UNSET
       /\ (\E i \in 1..Len(last.calls) :
              /\ last.calls[i].fn = "lookupView"
              /\ last.calls[i].outcome \in {"null", "wrongType"})
            => last.set = TRI_ERROR_ARANGO_VIEW_NOT_FOUND

\* C9: valid metadata, no view id and no skip marker: make returns null with
\* ViewNotFound and performs no lookup and no registration.
C9_NoViewNoMarker ==
  (/\ last.op = "make"
   /\ last.definition.fields.ok
   /\ ~last.definition.view.has
   /\ last.definition.skip = "absent")
    => /\ ~last.ret.exists
       /\ ~link.exists
       /\ last.set = TRI_ERROR_ARANGO_VIEW_NOT_FOUND
       /\ errno = TRI_ERROR_ARANGO_VIEW_NOT_FOUND
       /\ last.calls = <<>>

C9_Witness ==
  /\ last.op = "make"
  /\ last.definition.fields.ok /\ ~last.definition.view.has
  /\ last.definition.skip = "absent"
  /\ last.collection.cid # 0 /\ last.collection.vocbase
  /\ errno = TRI_ERROR_ARANGO_VIEW_NOT_FOUND

\* C10: unload() returns success, a second unload() changes nothing, and on a
\* link that was already unbound unload() changes nothing (defaultId kept).
C10_UnloadIdempotent ==
  last.op = "unload"
    => /\ last.ret = TRI_ERROR_NO_ERROR
       /\ unload(link).ret = TRI_ERROR_NO_ERROR
       /\ unload(link).link = link
       /\ last.before.view = 0 => link = last.before

C10_Witness ==
  /\ last.op = "unload"
  /\ last.before.view = 0
  /\ last.before.defaultId # 0
  /\ link = last.before

\* C11: batchInsert with a status queue sets CollectionNotLoaded on the queue
\* when the view or the collection is missing and BadParameter when the link
\* is bound and the transaction is null; the view's insert is not called and
\* the call returns normally.
C11_BatchInsertReportsToQueue ==
  (last.op = "batchInsert" /\ last.hasQueue)
    => /\ (link.view = 0 \/ link.collection = 0)
            => /\ last.writes = <<TRI_ERROR_ARANGO_COLLECTION_NOT_LOADED>>
               /\ last.calls = <<>>
               /\ ~last.thrown
       /\ (link.view # 0 /\ link.collection # 0 /\ last.trx = 0)
            => /\ last.writes = <<TRI_ERROR_BAD_PARAMETER>>
               /\ last.calls = <<>>
               /\ ~last.thrown
       /\ last.writes # <<>> => queue # TRI_ERROR_NO_ERROR

C11_Witness ==
  /\ last.op = "batchInsert" /\ last.hasQueue
  /\ link.view = 0 /\ last.trx = 0
  /\ last.writes = <<TRI_ERROR_ARANGO_COLLECTION_NOT_LOADED>>
  /\ queue = TRI_ERROR_ARANGO_COLLECTION_NOT_LOADED

\* C13: on a bound link with a transaction, insert calls the view's insert
\* exactly once with the collection's id, the revision id, the document and
\* the link's metadata, remove calls the view's remove exactly once with the
\* collection's id and the revision id, and each returns the status the view
\* reported; with a null transaction both return BadParameter without a call.
C13_ForwardsUnmodified ==
  (last.op \in {"insert", "remove"} /\ link.view # 0 /\ link.collection # 0)
    => /\ last.trx = 0
            => (last.ret = TRI_ERROR_BAD_PARAMETER /\ last.calls = <<>>)
       /\ last.trx # 0
            => /\ Len(last.calls) = 1
               /\ last.calls[1].fn = last.op
               /\ last.calls[1].view = link.view
               /\ last.calls[1].cid = link.collection
               /\ last.calls[1].rid = last.rid
               /\ last.op = "insert"
                    => (last.calls[1].doc = last.doc /\ last.calls[1].meta = link.meta)
               /\ last.ret = last.calls[1].status

C13_Witness ==
  /\ last.op = "insert"
  /\ link.view # 0 /\ link.collection # 0 /\ last.trx # 0
  /\ Len(last.calls) = 1
  /\ last.calls[1].status = TRI_ERROR_BAD_PARAMETER
  /\ last.ret = TRI_ERROR_BAD_PARAMETER

\* C18: on a link whose view or collection is missing, insert, remove and drop
\* return CollectionNotLoaded and batchInsert with a queue sets
\* CollectionNotLoaded, whatever the other arguments are (a null transaction
\* included), and the view is never called.
C18_BindingCheckFirst ==
  (link.exists /\ (link.view = 0 \/ link.collection = 0))
    => /\ last.op \in {"insert", "remove", "drop"}
            => (last.ret = TRI_ERROR_ARANGO_COLLECTION_NOT_LOADED /\ last.calls = <<>>)
       /\ (last.op = "batchInsert" /\ last.hasQueue)
            => /\ last.writes = <<TRI_ERROR_ARANGO_COLLECTION_NOT_LOADED>>
               /\ last.calls = <<>>

C18_Witness ==
  /\ last.op = "remove"
  /\ link.exists /\ link.view = 0 /\ link.defaultId # 0 /\ link.collection # 0
  /\ last.trx = 0
  /\ last.ret = TRI_ERROR_ARANGO_COLLECTION_NOT_LOADED

\* the view field toVelocyPack is expected to write for a link
ExpectedViewField(l) ==
  IF l.view # 0 THEN [has |-> TRUE, number |-> TRUE, n |-> l.view]
  ELSE IF l.defaultId # 0 THEN [has |-> TRUE, number |-> TRUE, n |-> l.defaultId]
  ELSE NoViewField

\* C14: toVelocyPack writes the bound view's id if the link is bound (even when
\* defaultId is non-zero and different), otherwise defaultId if it is
\* non-zero, otherwise no view field; the flags do not change this.
C14_ViewFieldWritten ==
  last.op = "toVelocyPack"
    => /\ last.ret.view = ExpectedViewField(link)
       /\ \A f \in AllFlags : toVelocyPack(link, f[1], f[2]).view = last.ret.view

C14_Witness ==
  /\ last.op = "toVelocyPack"
  /\ link.view # 0 /\ link.defaultId # 0 /\ link.defaultId # link.view
  /\ ~last.forPersistence
  /\ last.ret.view.n = link.view

\* C17 (as stated): whenever make succeeds on a definition that carries a view
\* id v, 0 included, toVelocyPack of the link writes view = v and the link's
\* metadata fields.
C17_RoundTripAnyId ==
  (last.op = "make" /\ last.ret.exists /\ last.definition.view.has)
    => \A f \in AllFlags :
         /\ toVelocyPack(link, f[1], f[2]).view = last.definition.view
         /\ toVelocyPack(link, f[1], f[2]).fields
              = metaJson(metaInit(last.definition).meta)

\* C17 (amended): whenever make succeeds on a definition that carries a
\* non-zero view id v, toVelocyPack of the link writes view = v and the link's
\* metadata fields; for the id 0 (deferred path only) no view field is written.
C17_RoundTripNonZeroId ==
  (last.op = "make" /\ last.ret.exists /\ last.definition.view.has)
    => \A f \in AllFlags :
         /\ last.definition.view.n # 0
              => toVelocyPack(link, f[1], f[2]).view = last.definition.view
         /\ last.definition.view.n = 0
              => (toVelocyPack(link, f[1], f[2]).view = NoViewField
                   /\ last.definition.skip # "absent")
         /\ toVelocyPack(link, f[1], f[2]).fields
              = metaJson(metaInit(last.definition).meta)

C17_Witness ==
  /\ last.op = "make" /\ last.ret.exists
  /\ last.definition.skip # "absent"
  /\ last.definition.view.has /\ last.definition.view.n = 0
  /\ link.defaultId = 0
  /\ toVelocyPack(link, FALSE, TRUE).view = NoViewField

\* C20 (as stated): the value of skipViewRegistration decides: true defers,
\* false with a view id takes the bound path (the view is looked up).
C20_DeferralByValue ==
  last.op = "make"
    => /\ last.definition.skip = "true"
            => (last.calls = <<>> /\ (last.ret.exists => last.ret.view = 0))
       /\ (/\ last.definition.skip = "false"
            /\ last.definition.fields.ok
            /\ resolvesView(last.collection, last.definition))
            => (last.calls # <<>> /\ last.calls[1].fn = "lookupView")

\* C20 (amended): the presence of skipViewRegistration decides, whatever its
\* value: with the field present (true or false) make looks nothing up and
\* returns an unbound link remembering the view id; only without the field
\* does a definition with a view id take the bound path.
C20_DeferralByPresence ==
  last.op = "make"
    => /\ last.definition.skip \in {"true", "false"}
            => /\ last.calls = <<>>
               /\ last.ret.exists => last.ret.view = 0
               /\ (last.definition.fields.ok /\ last.definition.view.number)
                    => (last.ret.exists
                         /\ last.ret.defaultId = last.definition.view.n)
       /\ (/\ last.definition.skip = "absent"
            /\ last.definition.fields.ok
            /\ resolvesView(last.collection, last.definition))
            => (last.calls # <<>> /\ last.calls[1].fn = "lookupView")

C20_Witness ==
  /\ last.op = "make"
  /\ last.definition.skip = "false"
  /\ last.definition.fields.ok
  /\ resolvesView(last.collection, last.definition)
  /\ last.definition.view.n # 0
  /\ last.calls = <<>>
  /\ link.exists /\ link.view = 0 /\ link.defaultId = last.definition.view.n

\* the member functions of the link, as named in `last'
OwnOps ==
  {"load", "unload", "insert", "remove", "batchInsert", "drop",
   "matchesDefinition", "toVelocyPack", "memory"}

\* C15: once a link is unbound none of its own operations binds it again, and
\* load() returns success and changes nothing.
C15_UnbindingOneWay ==
  [][/\ (link.exists /\ link.view = 0 /\ last'.op \in OwnOps) => link'.view = 0
     /\ last'.op = "load" => (link' = link /\ last'.ret = TRI_ERROR_NO_ERROR)]_vars

C15_Witness ==
  /\ last.op = "load"
  /\ link.exists /\ link.view = 0 /\ link.defaultId # 0
  /\ last.ret = TRI_ERROR_NO_ERROR

C19_OnlyUnloadChangesLink ==
  [][link.exists
       => /\ last'.op \in (OwnOps \ {"unload"}) => link' = link
          /\ (last'.op = "drop" /\ link.view # 0) => link'.view = link.view
          /\ last'.op = "unload"
               => (link'.meta = link.meta /\ link'.collection = link.collection)
          /\ link'.defaultId # link.defaultId
               => (last'.op = "unload" /\ link.view # 0)]_vars

C19_Witness ==
  /\ last.op = "drop"
  /\ link.exists /\ link.view # 0 /\ link.collection # 0
  /\ last.ret = TRI_ERROR_INTERNAL

\* C12: for batchInsert calls that share one queue and run in any
\* interleaving, once all have finished the queue holds a non-success status
\* if the view reported a non-success status for at least one of them; a call
\* whose batch succeeded has written nothing to the queue.
C12_FailureStaysVisible ==
  /\ \A t \in Tasks :
       (tasks[t].pc = "done" /\ tasks[t].status = TRI_ERROR_NO_ERROR)
         => tasks[t].writes = <<>>
  /\ ((\A t \in Tasks : tasks[t].pc = "done")
       /\ (\E t \in Tasks : tasks[t].status \notin {"none", TRI_ERROR_NO_ERROR}))
        => queue # TRI_ERROR_NO_ERROR

C12_Witness ==
  /\ \A t \in Tasks : tasks[t].pc = "done"
  /\ \E t, u \in Tasks :
       /\ tasks[t].status = TRI_ERROR_INTERNAL
       /\ tasks[u].status = TRI_ERROR_NO_ERROR
  /\ queue = TRI_ERROR_INTERNAL

====
